---- MODULE Spec2Model ----
(***************************************************************************)
(* Model of abel/hansenlaw.py: hansenlaw_transform, the Hansen-Law         *)
(* recursive forward/inverse Abel transform of a right-side half-image.    *)
(*                                                                         *)
(* Real numbers are fixed-point integers in units of 1/Scale; products and *)
(* quotients are rounded to the nearest unit.  Arrays are sequences, so    *)
(* the Python index i is the TLA+ index i+1; column numbers (col, the      *)
(* entries of n) keep their Python values 0 .. cols-1.                      *)
(***************************************************************************)
EXTENDS Integers, Sequences, FiniteSets, TLC

\* ------------------------------------------------------------------ bounds
MaxRows == 2
MaxCols == 3
MaxConst == 2
MaxLit == 3

\* --------------------------------------------------------------- arithmetic
\* One unit of the fixed-point representation is 1/Scale.
Scale == 10^3
\* Working precision of the logarithm and the exponential.
Prec == 10^4

Abs(x) == IF x < 0 THEN -x ELSE x

\* v itself.  TLC keeps a function constructor unevaluated and evaluates its
\* body at every application; comparing it makes it an explicit array.
Force(v) == IF v = v THEN v ELSE v

\* a / b rounded to the nearest integer (b # 0).
RoundDiv(a, b) ==
    LET s == IF b < 0 THEN -1 ELSE 1
    IN  (2 * s * a + s * b) \div (2 * s * b)

\* Product of two fixed-point numbers.
Mul(a, b) == RoundDiv(a * b, Scale)

\* sum over j of t_j / j, t_(j+2) = t_j * u2n / u2d: the series of atanh.
RECURSIVE AtanhSeries(_, _, _, _)
AtanhSeries(t, u2n, u2d, j) ==
    IF t = 0 THEN 0
    ELSE RoundDiv(t, j) + AtanhSeries(RoundDiv(t * u2n, u2d), u2n, u2d, j + 2)

\* ln(a/b) in units of 1/Prec, as 2*atanh((a-b)/(a+b)), for a >= b > 0.
LnPrec(ratio) ==
    LET a == ratio[1]
        b == ratio[2]
    IN  2 * AtanhSeries(RoundDiv(Prec * (a - b), a + b),
                        (a - b) * (a - b), (a + b) * (a + b), 1)

\* sum over j of x^j / j!, for 0 <= x < Prec, in units of 1/Prec.
RECURSIVE ExpSeries(_, _, _)
ExpSeries(term, x, j) ==
    IF term = 0 THEN 0
    ELSE term + ExpSeries(RoundDiv(term * x, j * Prec), x, j + 1)

\* v * e^n, in units of 1/Prec.
RECURSIVE TimesEToThe(_, _)
TimesEToThe(v, n) ==
    IF n = 0 THEN v
    ELSE IF n > 0 THEN TimesEToThe(RoundDiv(v * 27183, Prec), n - 1)
    ELSE TimesEToThe(RoundDiv(v * 3679, Prec), n + 1)

\* e^(y/Prec) in units of 1/Prec.
ExpPrec(y) ==
    LET n == y \div Prec
    IN  TimesEToThe(ExpSeries(Prec, y - n * Prec, 1), n)

\* ratio ** (e10/10) in units of 1/Scale; ratio = <<a, b>> stands for a/b >= 1.
\* A power below e^-10 rounds to 0.
Pow(ratio, e10) ==
    LET l == LnPrec(ratio)
    IN  IF l = 0 THEN Scale
        ELSE IF -e10 > (100 * Prec) \div l THEN 0
        ELSE RoundDiv(ExpPrec(RoundDiv(e10 * l, 10)), Prec \div Scale)

\* ln(ratio) in units of 1/Scale.
Log(ratio) == RoundDiv(LnPrec(ratio), Prec \div Scale)

\* ---------------------------------------------------------------- constants
\* Hansen & Law constants as listed in Table 1: h in units of 1/Scale,
\* lam in tenths.
h == <<318, 190, 350, 820, 1800, 3900, 8300, 19600, 48300>>
lam10 == <<0, -21, -62, -224, -925, -4145, -18894, -89909, -473911>>
K == Len(h)
\* np.pi in units of 1/Scale.
Pi == 3142
\* The shift is counted in units of 1/ShiftUnit pixel; 1.0e-3 pixel is then 10.
ShiftUnit == 10^4
ShiftThreshold == 10

\* ------------------------------------------------------------------- inputs
\* direction is any string; "sideways" stands for the unrecognised ones.
Directions == {"forward", "inverse", "sideways"}
SampleSpacings == {1, 2}
Shifts == {-11, -10, 0, 10, 11, ShiftUnit}
Intensities == {0, Scale}

ConstImage(rows, cols, c) == [r \in 1..rows |-> [x \in 1..cols |-> c]]

RECURSIVE LitInRow(_, _)
LitInRow(row, x) ==
    IF x = 0 THEN 0
    ELSE (IF row[x] # 0 THEN 1 ELSE 0) + LitInRow(row, x - 1)

RECURSIVE Lit(_, _)
Lit(M, r) == IF r = 0 THEN 0 ELSE LitInRow(M[r], Len(M[r])) + Lit(M, r - 1)

\* The images of one shape: the 0/1 images of at most MaxLit lit pixels, and
\* the constant images.
Images(rows, cols) ==
    {M \in [1..rows -> [1..cols -> Intensities]] : Lit(M, rows) <= MaxLit}
        \cup {ConstImage(rows, cols, c * Scale) : c \in 1..MaxConst}

\* np.shape(IM)
Rows(M) == Len(M)
Cols(M) == Len(M[1])

\* ------------------------------------------------------------ geometry factors
\* The sweep from the centre outwards: n = np.arange(0, cols-1).
nAscending(cols) == [i \in 1..(cols - 1) |-> i - 1]

\* n = np.arange(cols-2, -1, -1): position i holds column cols-1-i.
nArr(cols) == [i \in 1..(cols - 1) |-> cols - 1 - i]

\* The denominator one too large: denom = cols - n.
denomOffByOne(cols) == [i \in 1..(cols - 1) |-> cols - nArr(cols)[i]]

\* denom = cols - n - 1, one entry per position of n.
denomArr(cols) == [i \in 1..(cols - 1) |-> cols - nArr(cols)[i] - 1]

\* ratio = (cols-n)/denom, kept as the pair <<numerator, denominator>>.
ratioArr(cols) ==
    [i \in 1..(cols - 1) |-> <<cols - nArr(cols)[i], denomArr(cols)[i]>>]

\* One row of Phi: 1 for mode 0, ratio**lam[k] for the others.
PhiRow(ratio) == [k \in 1..K |-> IF k = 1 THEN Scale ELSE Pow(ratio, lam10[k])]

\* One row of the forward Gamma, Eq. (16c), scaled by -pi*dr.
GammaForwardRow(denom, ratio, spacing) ==
    [k \in 1..K |->
        LET lam1 == lam10[k] + 10
            g == RoundDiv(10 * Mul(h[k] * 2 * denom, Scale - Pow(ratio, lam1)),
                          lam1)
        IN  Mul(g, -(Pi * spacing))]

\* One row of the inverse Gamma, Eq. (18): the logarithm for lam = 0.
GammaInverseRow(ratio, phi) ==
    [k \in 1..K |->
        IF k = 1 THEN -Mul(h[1], Log(ratio))
        ELSE RoundDiv(10 * Mul(h[k], Scale - phi[k]), lam10[k])]

\* Phi = np.zeros((cols-1, K)), filled position by position of ratio.
PhiTable(cols) == [i \in 1..(cols - 1) |-> PhiRow(ratioArr(cols)[i])]

\* The branch on direction: "forward", or else the inverse transform.
IsForward(dir) == dir = "forward"

GammaTable(cols, spacing, dir) ==
    [i \in 1..(cols - 1) |->
        IF IsForward(dir)
        THEN GammaForwardRow(denomArr(cols)[i], ratioArr(cols)[i], spacing)
        ELSE GammaInverseRow(ratioArr(cols)[i], PhiTable(cols)[i])]

\* The tables of every width, spacing and direction of the model, computed
\* once: they depend on nothing else.
PhiTables == Force([cols \in 1..MaxCols |-> PhiTable(cols)])

GammaTables ==
    Force([cols \in 1..MaxCols |->
              [spacing \in SampleSpacings |->
                  [dir \in Directions |-> GammaTable(cols, spacing, dir)]]])

\* ------------------------------------------------------------- driving signal
\* np.gradient raises ValueError on an axis of fewer than two samples.
GradientRaises(M) == Cols(M) < 2

\* np.gradient(IM, dr, axis=-1): central differences inside, one-sided at the
\* two edge columns.
Gradient(M, spacing) ==
    [r \in 1..Rows(M) |->
        [x \in 1..Cols(M) |->
            IF x = 1 THEN RoundDiv(M[r][2] - M[r][1], spacing)
            ELSE IF x = Cols(M)
                 THEN RoundDiv(M[r][x] - M[r][x - 1], spacing)
            ELSE RoundDiv(M[r][x + 1] - M[r][x - 1], 2 * spacing)]]

\* The raw image in both directions.
RawSignal(M, spacing, dir) == M

\* gp: the raw image (forward) or its derivative (any other direction).
DrivingSignal(M, spacing, dir) ==
    IF IsForward(dir) THEN M ELSE Gradient(M, spacing)

\* The threshold itself counted as a shift: abs(shift) >= 1.0e-3.
ShiftAppliesAtThreshold(s) == Abs(s) >= ShiftThreshold

\* abs(shift) > 1.0e-3
ShiftApplies(s) == Abs(s) > ShiftThreshold

\* A sample of a row, zero outside the array.
Sample(row, x) == IF x >= 1 /\ x <= Len(row) THEN row[x] ELSE 0

\* interpolation.shift(gp, (0, shift)): every row moved by s/ShiftUnit samples
\* towards higher columns, zero outside.  The library's cubic spline is
\* replaced by linear interpolation; whole-pixel shifts are exact.
Shifter(M, s) ==
    LET q == s \div ShiftUnit
        f == s - q * ShiftUnit
    IN  [r \in 1..Rows(M) |->
            [x \in 1..Cols(M) |->
                RoundDiv(f * Sample(M[r], x - q - 1)
                            + (ShiftUnit - f) * Sample(M[r], x - q),
                         ShiftUnit)]]

ShiftedSignal(M, s) == IF ShiftApplies(s) THEN Shifter(M, s) ELSE M

\* ------------------------------------------------------------------ recurrence
\* The output started as a copy of the image.
CopyOfImage(M) == M

\* AIM = np.zeros_like(IM)
ZerosLike(M) == [r \in 1..Rows(M) |-> [x \in 1..Cols(M) |-> 0]]

\* The state vector started at one.
XOnes(rows) == [k \in 1..K |-> [r \in 1..rows |-> Scale]]

\* X = np.zeros((K, rows))
XZero(rows) == [k \in 1..K |-> [r \in 1..rows |-> 0]]

\* gp[:, col]
Column(M, col) == [r \in 1..Rows(M) |-> M[r][col + 1]]

\* Every row driven by the first row's signal.
UpdateXFirstRow(Xs, phi, gamma, gcol) ==
    [k \in 1..K |->
        [r \in 1..Len(gcol) |-> Mul(phi[k], Xs[k][r]) + Mul(gamma[k], gcol[1])]]

\* X = Phi[col][:, None]*X + Gamma[col][:, None]*gp[:, col]
UpdateX(Xs, phi, gamma, gcol) ==
    [k \in 1..K |->
        [r \in 1..Len(gcol) |-> Mul(phi[k], Xs[k][r]) + Mul(gamma[k], gcol[r])]]

RECURSIVE SumModes(_, _, _)
SumModes(Xs, r, k) == IF k = 0 THEN 0 ELSE Xs[k][r] + SumModes(Xs, r, k - 1)

\* X.sum(axis=0)
ColumnSum(Xs, rows) == [r \in 1..rows |-> SumModes(Xs, r, K)]

\* AIM[:, col] = v
SetColumn(A, col, v) ==
    [r \in 1..Rows(A) |->
        [x \in 1..Cols(A) |-> IF x = col + 1 THEN v[r] ELSE A[r][x]]]

\* One pass of the loop body for column col, on st = [X, AIM].
LoopBody(st, col, PhiT, GammaT, g) ==
    LET X2 == Force(UpdateX(st.X, PhiT[col + 1], GammaT[col + 1], Column(g, col)))
    IN  [X |-> X2, AIM |-> SetColumn(st.AIM, col, ColumnSum(X2, Rows(g)))]

\* The loop over n from position i on.
RECURSIVE Sweep(_, _, _, _, _, _)
Sweep(i, st, ns, PhiT, GammaT, g) ==
    IF i > Len(ns) THEN st
    ELSE Sweep(i + 1, LoopBody(st, ns[i], PhiT, GammaT, g), ns, PhiT, GammaT, g)

\* if AIM.shape[0] == 1: AIM = AIM[0]
Returned(A) ==
    IF Rows(A) = 1 THEN [kind |-> "return", ndim |-> 1, value |-> A[1]]
    ELSE [kind |-> "return", ndim |-> 2, value |-> A]

Raised(e) == [kind |-> "raise", error |-> e]

\* The whole function, on the image as np.atleast_2d makes it.
hansenlaw_transform(M, spacing, dir, s) ==
    IF ~IsForward(dir) /\ GradientRaises(M) THEN Raised("ValueError")
    ELSE LET cols == Cols(M)
             g == Force(ShiftedSignal(DrivingSignal(M, spacing, dir), s))
             st0 == [X |-> XZero(Rows(M)), AIM |-> ZerosLike(M)]
         IN  Returned(Sweep(1, st0, nArr(cols), PhiTables[cols],
                            GammaTables[cols][spacing][dir], g).AIM)

\* ----------------------------------------------------------------------- state
VARIABLES
    IM,         \* the image, as np.atleast_2d(IM) makes it
    ndim,       \* the dimensionality of the caller's array: 1 or 2
    dr,         \* sampling size
    direction,
    shift,      \* in units of 1/ShiftUnit pixel
    pc,         \* "call", "shift", "loop", "done"
    Phi, Gamma, \* the factor tables, one row per position of n
    gp,         \* the driving signal
    X,          \* the state vector, K x rows
    AIM,        \* the transform image
    it,         \* position of the loop in n
    shifted,    \* whether interpolation.shift was called
    written,    \* the columns of AIM assigned so far, in order
    result      \* what the call returned or raised

vars == <<IM, ndim, dr, direction, shift, pc, Phi, Gamma, gp, X, AIM, it,
          shifted, written, result>>
inputs == <<IM, ndim, dr, direction, shift>>

Init ==
    /\ \E rows \in 1..MaxRows, cols \in 1..MaxCols :
          /\ IM \in Images(rows, cols)
          /\ ndim \in (IF rows = 1 THEN {1, 2} ELSE {2})
    /\ dr \in SampleSpacings
    /\ direction \in Directions
    /\ shift \in Shifts
    /\ pc = "call"
    /\ Phi = <<>> /\ Gamma = <<>> /\ gp = <<>> /\ X = <<>> /\ AIM = <<>>
    /\ it = 0
    /\ shifted = FALSE
    /\ written = <<>>
    /\ result = [kind |-> "none"]

\* Lines 113-151: the output image, the factor tables, the driving signal.
Setup ==
    /\ pc = "call"
    /\ AIM' = ZerosLike(IM)
    /\ Phi' = PhiTables[Cols(IM)]
    /\ Gamma' = GammaTables[Cols(IM)][dr][direction]
    /\ IF ~IsForward(direction) /\ GradientRaises(IM)
       THEN /\ pc' = "done"
            /\ result' = Raised("ValueError")
            /\ gp' = gp
       ELSE /\ pc' = "shift"
            /\ result' = result
            /\ gp' = DrivingSignal(IM, dr, direction)
    /\ UNCHANGED <<inputs, X, it, shifted, written>>

\* Lines 153-159: the optional pixel shift, then the zero state vector.
ShiftSignal ==
    /\ pc = "shift"
    /\ gp' = ShiftedSignal(gp, shift)
    /\ shifted' = ShiftApplies(shift)
    /\ X' = XZero(Rows(IM))
    /\ it' = 1
    /\ pc' = "loop"
    /\ UNCHANGED <<inputs, Phi, Gamma, AIM, written, result>>

\* Lines 160-162: one pass of the loop over n.
RecurrenceStep ==
    /\ pc = "loop"
    /\ it <= Len(nArr(Cols(IM)))
    /\ LET col == nArr(Cols(IM))[it]
           st == LoopBody([X |-> X, AIM |-> AIM], col, Phi, Gamma, gp)
       IN  /\ X' = st.X
           /\ AIM' = st.AIM
           /\ written' = Append(written, col)
    /\ it' = it + 1
    /\ UNCHANGED <<inputs, pc, Phi, Gamma, gp, shifted, result>>

\* Lines 164-167: the loop is over; a single row is flattened to a vector.
Return ==
    /\ pc = "loop"
    /\ it > Len(nArr(Cols(IM)))
    /\ result' = Returned(AIM)
    /\ pc' = "done"
    /\ UNCHANGED <<inputs, Phi, Gamma, gp, X, AIM, it, shifted, written>>

Next == Setup \/ ShiftSignal \/ RecurrenceStep \/ Return

Spec == Init /\ [][Next]_vars

\* ------------------------------------------------------------ claim helpers
ValidDirections == {"forward", "inverse"}

AllZero(M) == \A r \in 1..Len(M) : \A x \in 1..Len(M[r]) : M[r][x] = 0

IsConstant(M) == \A r \in 1..Rows(M) : \A x \in 1..Cols(M) : M[r][x] = M[1][1]

\* The columns cols-2, cols-3, ... : the first cnt of them.
Descending(cols, cnt) == [j \in 1..cnt |-> cols - 1 - j]

\* The factors of the geometry denom, ratio = (denom+1)/denom, by the formulas
\* of Eqs. (16a), (16c) and (18), tabulated for the geometries of the model.
FactorsOf ==
    Force([denom \in 1..MaxCols |->
              [spacing \in SampleSpacings |->
                  [dir \in Directions |->
                      LET ratio == <<denom + 1, denom>>
                      IN  [phi |-> PhiRow(ratio),
                           gamma |-> IF dir = "forward"
                                     THEN GammaForwardRow(denom, ratio, spacing)
                                     ELSE GammaInverseRow(ratio, PhiRow(ratio))]]]])

\* A step of the recurrence has just assigned a column of AIM.
StepTaken == Len(written') = Len(written) + 1
StepColumn == written'[Len(written')]

\* -------------------------------------------------------------------- claims
\* C1: a direction that is neither "forward" nor "inverse" fails with
\* InvalidArgument before any numeric work: the call never gets past its
\* entry, ends with that error and returns no image.  Stated for images of two
\* columns or more, where no other step of the call can fail.
C1_InvalidDirectionRejected ==
    (direction \notin ValidDirections /\ Cols(IM) >= 2) =>
        /\ pc \in {"call", "done"}
        /\ pc = "done" => result = Raised("InvalidArgument")
        /\ gp = <<>> /\ X = <<>> /\ written = <<>>

\* C2: the output has the dimensionality and the shape of the input: a 1D
\* input gives a 1D sequence of length cols, every 2D input (a single row
\* included) a 2D array of shape (rows, cols).
C2_ShapePreserved ==
    result.kind = "return" =>
        /\ result.ndim = ndim
        /\ ndim = 1 => Len(result.value) = Cols(IM)
        /\ ndim = 2 => /\ Len(result.value) = Rows(IM)
                       /\ \A r \in 1..Rows(IM) :
                             Len(result.value[r]) = Cols(IM)

\* C3: with cols = 1 and shift 0 the forward and the inverse transform both
\* complete normally, run no recurrence step and return all zeros.
C3_DegenerateWidth ==
    (pc = "done" /\ Cols(IM) = 1 /\ shift = 0
        /\ direction \in ValidDirections) =>
        /\ result.kind = "return"
        /\ written = <<>>
        /\ AllZero(AIM)

\* C4: whenever the transform returns, the outermost column of the output is
\* zero, and no recurrence step has written column cols-1.
C4_EdgeColumnZero ==
    result.kind = "return" =>
        /\ \A r \in 1..Rows(IM) : AIM[r][Cols(IM)] = 0
        /\ IF result.ndim = 1 THEN result.value[Cols(IM)] = 0
           ELSE \A r \in 1..Rows(IM) : result.value[r][Cols(IM)] = 0
        /\ \A j \in 1..Len(written) : written[j] # Cols(IM) - 1

C4_Witness ==
    /\ result.kind = "return"
    /\ Cols(IM) = 3 /\ Rows(IM) = 2
    /\ direction = "forward"
    /\ ShiftApplies(shift)
    /\ \A r \in 1..2 : IM[r][3] # 0 /\ AIM[r][2] # 0 /\ AIM[r][3] = 0

\* C5: the shifter is called exactly when |shift| > 1.0e-3; for |shift| <=
\* 1.0e-3, the boundary values included, it is not called and the result is
\* the result for shift 0.
C5_SmallShiftSkipped ==
    /\ (pc = "loop" \/ result.kind = "return") =>
          (shifted <=> Abs(shift) > ShiftThreshold)
    /\ (pc = "done" /\ Abs(shift) <= ShiftThreshold) =>
          /\ ~shifted
          /\ result = hansenlaw_transform(IM, dr, direction, 0)

C5_Witness ==
    /\ result.kind = "return"
    /\ Abs(shift) = ShiftThreshold
    /\ ~shifted
    /\ ~AllZero(AIM)
    /\ result = hansenlaw_transform(IM, dr, direction, 0)

\* C6: for cols >= 2 and shift 0 the transform of an all-zero image is
\* all-zero in both directions; the state vector is zero after every step.
C6_ZeroImage ==
    (AllZero(IM) /\ Cols(IM) >= 2 /\ shift = 0
        /\ direction \in ValidDirections) =>
        /\ pc = "loop" => AllZero(X) /\ AllZero(AIM)
        /\ result.kind = "return" =>
              /\ AllZero(AIM)
              /\ IF result.ndim = 1 THEN \A x \in 1..Cols(IM) : result.value[x] = 0
                 ELSE AllZero(result.value)

C6_Witness ==
    /\ AllZero(IM) /\ Cols(IM) = 3 /\ Rows(IM) = 2 /\ shift = 0
    /\ direction = "forward"
    /\ result.kind = "return"
    /\ Len(written) = 2
    /\ AllZero(X) /\ AllZero(result.value)

\* C7: for cols >= 2 and shift 0 the inverse transform of a constant image is
\* all-zero, whatever the constant; the forward transform of a non-zero
\* constant image is not.
C7_ConstantInverse ==
    (result.kind = "return" /\ IsConstant(IM) /\ Cols(IM) >= 2 /\ shift = 0) =>
        /\ direction = "inverse" => AllZero(AIM)
        /\ (direction = "forward" /\ IM[1][1] # 0) => ~AllZero(AIM)

C7_Witness ==
    /\ result.kind = "return"
    /\ IsConstant(IM) /\ IM[1][1] = 2 * Scale
    /\ Cols(IM) = 3 /\ shift = 0
    /\ direction = "inverse"
    /\ AllZero(AIM)

C9_SinglePass ==
    /\ (pc = "loop" /\ it = 1) => AllZero(X) /\ written = <<>>
    /\ pc = "loop" =>
          /\ it <= Cols(IM)
          /\ written = Descending(Cols(IM), it - 1)
    /\ result.kind = "return" => written = Descending(Cols(IM), Cols(IM) - 1)
    /\ (pc = "loop" /\ it > 1) =>
          Column(AIM, written[it - 1]) = ColumnSum(X, Rows(IM))

C9_Witness ==
    /\ result.kind = "return"
    /\ Cols(IM) = 3
    /\ written = <<1, 0>>
    /\ ~AllZero(X)
    /\ Column(AIM, 0) = ColumnSum(X, Rows(IM))

\* C10: for rows >= 2, cols >= 2 and |shift| <= 1.0e-3, row r of the output
\* is the transform of row r alone as a 1D profile.
C10_RowsIndependent ==
    (result.kind = "return" /\ Rows(IM) >= 2 /\ Cols(IM) >= 2
        /\ Abs(shift) <= ShiftThreshold) =>
        \A r \in 1..Rows(IM) :
            LET alone == hansenlaw_transform(<<IM[r]>>, dr, direction, shift)
            IN  /\ alone.kind = "return" /\ alone.ndim = 1
                /\ result.value[r] = alone.value

C10_Witness ==
    /\ result.kind = "return"
    /\ Rows(IM) = 2 /\ Cols(IM) = 3
    /\ Abs(shift) <= ShiftThreshold
    /\ IM[1] # IM[2]
    /\ result.value[1] # result.value[2]
    /\ \A r \in 1..2 : ~AllZero(<<result.value[r]>>)
====
